---- MODULE Spec2Model ----
(***************************************************************************)
(* gdrive-sync: the reconciliation engine of a local directory tree and a  *)
(* Google Drive folder.  Two implementations live in the repository and    *)
(* both are modelled:                                                      *)
(*   engine = "script"  : src/gdrive_sync.py (push only, module globals    *)
(*                        DRY_RUN and COMPARE_HASHES)                      *)
(*   engine = "manager" : src/classes/SyncManager.py on top of             *)
(*                        src/classes/GoogleDriveService.py (up, down,     *)
(*                        two-way; conflict_resolution; dry_run)           *)
(* A recursive walk is an explicit stack of frames; one action is one step *)
(* of the walker (resolve the root, list a folder, process one entry,      *)
(* return from a directory).                                               *)
(***************************************************************************)
EXTENDS Integers, Sequences, FiniteSets, TLC

VARIABLES
    engine,         \* "script" | "manager" | "refactor"
    dryRun,         \* DRY_RUN / SyncManager.dry_run
    compareHashes,  \* COMPARE_HASHES (read by the script only)
    direction,      \* "up" | "down" | "two-way" (the script only pushes)
    policy,         \* conflict_resolution
    fs,             \* local tree: path -> entry
    drive,          \* remote store: sequence of items, id = index
    now,            \* the clock that stamps uploads and downloads
    pc,             \* position of the run
    stack,          \* recursion stack of the walker, top = last
    calls,          \* real requests sent to the Drive client, in order
    events,         \* "[DRY RUN] Would ..." log lines, in order
    failed,         \* failures met in the current run
    budget,         \* collaborator failures the environment may still inject
    runsLeft,       \* times the program may still be started again
    prev            \* what the previous run left

vars == <<engine, dryRun, compareHashes, direction, policy, fs, drive, now,
          pc, stack, calls, events, failed, budget, runsLeft, prev>>

config == <<engine, dryRun, compareHashes, direction, policy>>

----------------------------------------------------------------------------
(* Bounds of the model *)

MaxTime == 6        \* the clock runs from 1 to MaxTime
MaxFaults == 1      \* collaborator failures injected per behaviour
MaxRuns == 2        \* successive runs of the program

(* Program constants *)

TOLERANCE == 2      \* datetime.timedelta(seconds=2)

FOLDER_MIME == "application/vnd.google-apps.folder"
FILE_MIME == "application/octet-stream"
DRIVE_BACKUP_ROOT_FOLDER_NAME == "Documents Backup"

----------------------------------------------------------------------------
(* Names, paths and identifiers *)

Names == {"a", "b", "c", ".h", "Thumbs.db"}

\* The directory tree the model draws local entries from: the local root,
\* two entries below it and one entry below each of those; a hidden entry
\* with one entry below it and a junk entry.
Paths == {<<>>, <<"a">>, <<"b">>, <<"a", "c">>, <<"b", "c">>,
          <<".h">>, <<".h", "c">>, <<"Thumbs.db">>,
          <<"a.tmp">>, <<"b.tmp">>}

NoEntry == [kind |-> "none", mtime |-> 0, size |-> 0, md5 |-> "none"]
DirEntry == [kind |-> "dir", mtime |-> 0, size |-> 0, md5 |-> "none"]
FileEntry(t, s, h) == [kind |-> "file", mtime |-> t, size |-> s, md5 |-> h]

\* An identifier: a real Drive id (n = index into drive, 0 = the Drive root
\* alias 'root'), or one of the placeholder strings the dry-run code builds.
NoId == [kind |-> "none", n |-> 0, name |-> ""]
RealId(n) == [kind |-> "real", n |-> n, name |-> ""]
RootAlias == RealId(0)

\* create_drive_folder / upload_or_update_file build the placeholder from the
\* name: every character that is not alphanumeric (or ' ', '_', '-', and '.'
\* for files) becomes '_', then every space becomes '_'.
SafeName(name) ==
    IF name = DRIVE_BACKUP_ROOT_FOLDER_NAME THEN "Documents_Backup" ELSE name

DryFolderId(name) == [kind |-> "dry_run_folder", n |-> 0, name |-> SafeName(name)]
DryFileId(name) == [kind |-> "dry_run_file", n |-> 0, name |-> SafeName(name)]
SimulatedFolderId(name) == [kind |-> "simulated_drive_folder", n |-> 0, name |-> name]

\* The check looks for a prefix the placeholders do not have.
StartsWithDryRun_WrongPrefix(id) == id.kind \in {"dryrun_folder", "dryrun_file"}

\* drive_parent_folder_id.startswith("dry_run_")
StartsWithDryRun(id) == id.kind \in {"dry_run_folder", "dry_run_file"}

IsPlaceholder(id) == id.kind \in {"dry_run_folder", "dry_run_file", "simulated_drive_folder"}

\* local_item_name.startswith('.')
HiddenNames == {".h"}
IsHidden(name) == name \in HiddenNames

\* local_item_name.lower() in ['thumbs.db', '$recycle.bin', '.ds_store']
Lower(name) == IF name = "Thumbs.db" THEN "thumbs.db" ELSE name
IsJunk(name) == Lower(name) \in {"thumbs.db", "$recycle.bin", ".ds_store"}

----------------------------------------------------------------------------
(* The remote store.  An item is                                           *)
(*   [name, parent, mimeType, modifiedTime, size, md5Checksum]             *)
(* with parent the index of its folder (0 = 'root'); modifiedTime = 0,     *)
(* size = 0 and md5Checksum = "none" encode a field the listing lacks.     *)

Item(name, parent, mime, t, s, h) ==
    [name |-> name, parent |-> parent, mimeType |-> mime,
     modifiedTime |-> t, size |-> s, md5Checksum |-> h]

FolderItem(name, parent) == Item(name, parent, FOLDER_MIME, 1, 0, "none")

IsFolder(it) == it.mimeType = FOLDER_MIME

\* The ids a files().list of folder `fid` returns ("'<id>' in parents"),
\* as a set; the store answers in id order.
ChildIds(d, fid) ==
    IF fid.kind = "real" THEN {i \in 1..Len(d) : d[i].parent = fid.n} ELSE {}

Max(S) == CHOOSE x \in S : \A y \in S : y <= x
Min(S) == CHOOSE x \in S : \A y \in S : x <= y

\* drive_items_map[item['name']] = item, in listing order: the last item
\* listed under a name stays in the map.  0 = no entry (dict.get -> None).
NameMap(d, fid) ==
    [n \in Names |->
        LET S == {i \in ChildIds(d, fid) : d[i].name = n}
        IN IF S = {} THEN 0 ELSE Max(S)]

EmptyMap == [n \in Names |-> 0]

\* find_drive_item / get_item_id: items[0] of the query
\* "name = .. and '<parent>' in parents [and mimeType = ..]"; mime = "" when
\* the caller gives none.  0 = None.
FindItem(d, name, fid, mime) ==
    LET S == {i \in ChildIds(d, fid) :
                 d[i].name = name /\ (mime = "" \/ d[i].mimeType = mime)}
    IN IF S = {} THEN 0 ELSE Min(S)

----------------------------------------------------------------------------
(* The local tree *)

Child(p, n) == Append(p, n)

\* What iterdir() / os.listdir() of directory p yields.
ChildNames(f, p) ==
    {n \in Names : Child(p, n) \in Paths /\ f[Child(p, n)].kind # "none"}

----------------------------------------------------------------------------
(* Logs *)

Call(op, id, name) == [op |-> op, id |-> id, name |-> name]
Event(ev, id, name) == [ev |-> ev, id |-> id, name |-> name]
Failure(op, dir, name) == [op |-> op, dir |-> dir, name |-> name]

Frame(mode, dir, rid) ==
    [mode |-> mode, dir |-> dir, rid |-> rid, listed |-> FALSE,
     map |-> EmptyMap, todo |-> {}, items |-> <<>>]

Top == stack[Len(stack)]
Pop == SubSeq(stack, 1, Len(stack) - 1)
SetTop(f) == [stack EXCEPT ![Len(stack)] = f]

----------------------------------------------------------------------------
(* Requests to the Drive API.  A helper of the program is modelled as a    *)
(* function from the effect so far to the effect after it: the store, the  *)
(* two logs, the failures, the value it returns (id) and how its last      *)
(* request ended (err): "ok", "http" (HttpError) or "error" (any other     *)
(* exception, e.g. a network error).  o is the outcome the environment     *)
(* gives the request; nf counts the failures the environment injected.     *)

OutcomeSet == {"ok", "http", "error"}

\* t: what the clock shows when a request of this step stamps a file.
Start(t) == [drive |-> drive, calls |-> calls, events |-> events, failed |-> failed,
             fs |-> fs, id |-> NoId, err |-> "ok", nf |-> 0, now |-> t,
             stamped |-> FALSE]

Stamps == now..MaxTime

Log(s, call) == [s EXCEPT !.calls = Append(@, call)]
Note(s, ev) == [s EXCEPT !.events = Append(@, ev)]
Fails(s, o, f) == [s EXCEPT !.failed = @ \cup {f}, !.nf = @ + 1, !.err = o, !.id = NoId]
Caught(s) == [s EXCEPT !.err = "ok"]

\* files().list(q="name = .. and '<parent>' in parents ..").execute()
ApiFind(s, name, fid, mime, o) ==
    LET c == Log(s, Call("find", fid, name)) IN
    IF o # "ok"
    THEN Fails(c, o, Failure("find", fid, name))
    ELSE LET i == FindItem(s.drive, name, fid, mime)
         IN [c EXCEPT !.id = IF i = 0 THEN NoId ELSE RealId(i), !.err = "ok"]

\* files().create with a body that lacks "parents": the folder lands in the
\* root of My Drive.
ApiCreateFolder_NoParents(s, name, fid, o) ==
    LET c == Log(s, Call("create_folder", fid, name)) IN
    IF o # "ok"
    THEN Fails(c, o, Failure("create_folder", fid, name))
    ELSE [c EXCEPT !.drive = Append(@, FolderItem(name, 0)),
                   !.id = RealId(Len(s.drive) + 1), !.err = "ok"]

\* files().create(body={name, mimeType: folder, parents: [parent]})
ApiCreateFolder(s, name, fid, o) ==
    LET c == Log(s, Call("create_folder", fid, name)) IN
    IF o # "ok"
    THEN Fails(c, o, Failure("create_folder", fid, name))
    ELSE [c EXCEPT !.drive = Append(@, FolderItem(name, fid.n)),
                   !.id = RealId(Len(s.drive) + 1), !.err = "ok"]

\* files().create(body={name, parents: [parent]}, media_body=...): the new
\* item carries the content's size and digest and the time of the upload.
ApiCreateFile(s, name, fid, e, o) ==
    LET c == Log(s, Call("upload", fid, name)) IN
    IF o # "ok"
    THEN Fails(c, o, Failure("upload", fid, name))
    ELSE [c EXCEPT !.drive = Append(@, Item(name, fid.n, FILE_MIME, s.now, e.size, e.md5)),
                   !.id = RealId(Len(s.drive) + 1), !.err = "ok", !.stamped = TRUE]

\* files().update(fileId=id, media_body=...): new content, new modifiedTime.
\* The store refuses media for a folder.
ApiUpdate(s, id, name, e, o) ==
    LET c == Log(s, Call("update", id, name)) IN
    IF o # "ok"
    THEN Fails(c, o, Failure("update", id, name))
    ELSE IF IsFolder(s.drive[id.n])
         THEN [c EXCEPT !.err = "http", !.id = NoId]
         ELSE [c EXCEPT !.drive = [@ EXCEPT ![id.n].modifiedTime = s.now,
                                            ![id.n].size = e.size,
                                            ![id.n].md5Checksum = e.md5],
                        !.id = id, !.err = "ok", !.stamped = TRUE]

\* A listing that is sent a second time when it fails.
ApiList_Retry(s, fid, o) ==
    LET c == Log(s, Call("list", fid, "")) IN
    IF o # "ok"
    THEN Fails(Log(c, Call("list", fid, "")), o, Failure("list", fid, ""))
    ELSE IF fid.kind # "real"
         THEN [c EXCEPT !.err = "http", !.id = NoId]
         ELSE [c EXCEPT !.err = "ok", !.id = fid]

\* files().list(q="'<id>' in parents and trashed = false"): the request is
\* sent whatever the id is; the store answers a made-up id with an HttpError.
ApiList(s, fid, o) ==
    LET c == Log(s, Call("list", fid, "")) IN
    IF o # "ok"
    THEN Fails(c, o, Failure("list", fid, ""))
    ELSE IF fid.kind # "real"
         THEN [c EXCEPT !.err = "http", !.id = NoId]
         ELSE [c EXCEPT !.err = "ok", !.id = fid]

\* files().get_media(fileId=id) written to local path p: the local file gets
\* the remote content and the time of the download.  sz, h: the content's
\* size and digest where the item's metadata lacks them.
ApiDownload(s, id, p, name, sz, h, o) ==
    LET c == Log(s, Call("download", id, name))
        it == s.drive[id.n]
    IN IF o # "ok"
       THEN Fails(c, o, Failure("download", id, name))
       ELSE [c EXCEPT !.fs = [@ EXCEPT ![p] =
                                FileEntry(s.now,
                                          IF it.size = 0 THEN sz ELSE it.size,
                                          IF it.md5Checksum = "none" THEN h
                                          ELSE it.md5Checksum)],
                      !.id = id, !.err = "ok", !.stamped = TRUE]

----------------------------------------------------------------------------
(* src/gdrive_sync.py *)

\* MediaFileUpload(path, resumable=True) opens the local file: a file that
\* cannot be read (the one get_file_md5 gives no digest for) raises there,
\* before any request is sent.  op, id: the transfer that was about to start.
OpenMedia(s, p, op, id, name) ==
    IF s.fs[p].md5 = "none"
    THEN [s EXCEPT !.failed = @ \cup {Failure(op, id, name)}, !.err = "error", !.id = NoId]
    ELSE [s EXCEPT !.err = "ok"]

\* needs_update stays False when the Drive file has no modifiedTime.
NeedsUpdate_MissingTimeSkips(e, it, cmp) ==
    it.modifiedTime # 0 /\ e.mtime > it.modifiedTime + TOLERANCE

\* The digests are compared whatever COMPARE_HASHES says.
NeedsUpdate_HashesAlways(e, it, cmp) ==
    IF it.modifiedTime # 0
    THEN IF e.mtime > it.modifiedTime + TOLERANCE
         THEN TRUE
         ELSE IF it.size # 0 /\ it.size # e.size
              THEN TRUE
              ELSE e.md5 = "none" \/ e.md5 # it.md5Checksum
    ELSE TRUE

\* upload_or_update_file, lines 292-327: the tiered needs_update decision
\* for local file entry e against the listed remote item it.
NeedsUpdate(e, it, cmp) ==
    IF it.modifiedTime # 0
    THEN IF e.mtime > it.modifiedTime + TOLERANCE
         THEN TRUE
         ELSE IF it.size # 0 /\ it.size # e.size
              THEN TRUE
              ELSE IF cmp /\ it.md5Checksum # "none"
                   THEN IF e.md5 # "none" /\ e.md5 # it.md5Checksum
                        THEN TRUE
                        ELSE e.md5 = "none"
                   ELSE cmp /\ it.md5Checksum = "none"
    ELSE TRUE

\* find_drive_item: an HttpError is caught and None returned.
FindDriveItem(s, name, fid, mime, o) ==
    LET r == ApiFind(s, name, fid, mime, o)
    IN IF r.err = "http" THEN Caught(r) ELSE r

\* create_drive_folder falls back to the parent's id when the request fails.
CreateDriveFolder_ParentOnFailure(s, name, parent, o) ==
    IF dryRun
    THEN [Note(s, Event("would_create_folder", parent, name))
             EXCEPT !.id = DryFolderId(name), !.err = "ok"]
    ELSE LET r == ApiCreateFolder(s, name, parent, o)
         IN IF r.err = "http" THEN [Caught(r) EXCEPT !.id = parent] ELSE r

\* create_drive_folder that answers a failed request with the placeholder.
CreateDriveFolder_PlaceholderOnFailure(s, name, parent, o) ==
    IF dryRun
    THEN [Note(s, Event("would_create_folder", parent, name))
             EXCEPT !.id = DryFolderId(name), !.err = "ok"]
    ELSE LET r == ApiCreateFolder(s, name, parent, o)
         IN IF r.err = "http" THEN [Caught(r) EXCEPT !.id = DryFolderId(name)] ELSE r

\* create_drive_folder that takes its dry-run branch in every run.
CreateDriveFolder_AlwaysDry(s, name, parent, o) ==
    [Note(s, Event("would_create_folder", parent, name))
        EXCEPT !.id = DryFolderId(name), !.err = "ok"]

\* create_drive_folder without its "if DRY_RUN" branch.
CreateDriveFolder_NoDryRunBranch(s, name, parent, o) ==
    LET r == ApiCreateFolder(s, name, parent, o)
    IN IF r.err = "http" THEN Caught(r) ELSE r

\* create_drive_folder(service, name, parent_id): the placeholder in a dry
\* run; otherwise the request, None on an HttpError.
CreateDriveFolder(s, name, parent, o) ==
    IF dryRun
    THEN [Note(s, Event("would_create_folder", parent, name))
             EXCEPT !.id = DryFolderId(name), !.err = "ok"]
    ELSE LET r == ApiCreateFolder(s, name, parent, o)
         IN IF r.err = "http" THEN Caught(r) ELSE r

\* upload_or_update_file that returns without a transfer.
UploadOrUpdateFile_NoTransfer(s, p, name, folder, ex, o) ==
    [s EXCEPT !.id = NoId, !.err = "ok"]

\* upload_or_update_file(service, local_file_path, drive_folder_id,
\* existing_drive_file); ex = 0 when existing_drive_file is None.
UploadOrUpdateFile(s, p, name, folder, ex, o) ==
    LET e == s.fs[p] IN
    IF ex # 0
    THEN IF ~NeedsUpdate(e, s.drive[ex], compareHashes)
         THEN [s EXCEPT !.id = RealId(ex), !.err = "ok"]
         ELSE IF dryRun
              THEN [Note(s, Event("would_update", RealId(ex), name))
                       EXCEPT !.id = RealId(ex), !.err = "ok"]
              ELSE LET m == OpenMedia(s, p, "update", RealId(ex), name)
                       r == ApiUpdate(m, RealId(ex), name, e, o)
                   IN IF m.err # "ok" THEN m
                      ELSE IF r.err = "http" THEN Caught(r) ELSE r
    ELSE IF dryRun
         THEN [Note(s, Event("would_upload", folder, name))
                  EXCEPT !.id = DryFileId(name), !.err = "ok"]
         ELSE LET m == OpenMedia(s, p, "upload", folder, name)
                  r == ApiCreateFile(m, name, folder, e, o)
              IN IF m.err # "ok" THEN m
                 ELSE IF r.err = "http" THEN Caught(r) ELSE r

\* The part of an effect that becomes the next state.
Commit(r) ==
    /\ r.nf <= budget
    /\ r.stamped \/ r.now = now
    /\ drive' = r.drive
    /\ calls' = r.calls
    /\ events' = r.events
    /\ failed' = r.failed
    /\ fs' = r.fs
    /\ now' = r.now
    /\ budget' = budget - r.nf

\* main(), lines 499-514: find or create the root backup folder, then walk.
\* An exception other than HttpError ends the program.
GS_Main ==
    /\ engine = "script"
    /\ pc = "start"
    /\ \E o1, o2 \in OutcomeSet, t \in Stamps :
         LET r1 == FindDriveItem(Start(t), DRIVE_BACKUP_ROOT_FOLDER_NAME, RootAlias, FOLDER_MIME, o1)
             r == IF r1.err = "error" \/ r1.id # NoId
                  THEN r1
                  ELSE CreateDriveFolder(r1, DRIVE_BACKUP_ROOT_FOLDER_NAME, RootAlias, o2)
         IN /\ Commit(r)
            /\ IF r.err = "error" \/ r.id = NoId
               THEN pc' = "aborted" /\ stack' = <<>>
               ELSE pc' = "up" /\ stack' = <<Frame("up", <<>>, r.id)>>
    /\ UNCHANGED <<config, runsLeft, prev>>

\* sync_directory_recursive, lines 379-417: list the Drive folder once
\* (not when it is a dry-run placeholder), then open the local directory.
\* Either kind of exception, and a local directory that is no longer there,
\* ends the processing of this directory only.
GS_List ==
    /\ engine = "script"
    /\ pc = "up"
    /\ stack # <<>>
    /\ ~Top.listed
    /\ \E o \in OutcomeSet :
         LET f == Top
             skip == dryRun /\ StartsWithDryRun(f.rid)
             r == IF skip THEN Start(now) ELSE ApiList(Start(now), f.rid, o)
         IN /\ Commit(Caught(r))
            /\ IF r.err = "ok" /\ fs[f.dir].kind = "dir"
               THEN /\ stack' = SetTop([f EXCEPT !.listed = TRUE,
                                                 !.map = IF skip THEN EmptyMap
                                                         ELSE NameMap(drive, f.rid),
                                                 !.todo = ChildNames(fs, f.dir)])
                    /\ pc' = pc
               ELSE /\ stack' = Pop
                    /\ pc' = IF Len(stack) = 1 THEN "done" ELSE pc
    /\ UNCHANGED <<config, runsLeft, prev>>

\* sync_directory_recursive, lines 420-468: one iteration of the loop over
\* the local entries, for entry n of the directory on top of the stack.
\* An entry that is neither is_file() nor is_dir() any more falls through.
\* The try/except around the entry catches every exception.
GS_Item ==
    /\ engine = "script"
    /\ pc = "up"
    /\ stack # <<>>
    /\ Top.listed
    /\ \E n \in Top.todo, o \in OutcomeSet, t \in Stamps :
         LET f == Top
             p == Child(f.dir, n)
             ex == f.map[n]
             rest == [f EXCEPT !.todo = @ \ {n}]
             isFile == fs[p].kind = "file"
             skipped == IsHidden(n) \/ IsJunk(n) \/ fs[p].kind = "none"
             clash == ex # 0 /\ (isFile <=> IsFolder(drive[ex]))
             r == IF skipped \/ clash
                  THEN Start(t)
                  ELSE IF isFile
                       THEN UploadOrUpdateFile(Start(t), p, n, f.rid, ex, o)
                       ELSE IF ex # 0
                            THEN [Start(t) EXCEPT !.id = RealId(ex)]
                            ELSE CreateDriveFolder(Start(t), n, f.rid, o)
             descend == ~skipped /\ ~clash /\ ~isFile /\ r.err = "ok" /\ r.id # NoId
         IN /\ Commit(Caught(r))
            /\ stack' = IF descend
                        THEN Append(SetTop(rest), Frame("up", p, r.id))
                        ELSE SetTop(rest)
    /\ UNCHANGED <<config, pc, runsLeft, prev>>

\* sync_directory_recursive returns once the loop has run out of entries.
GS_Return ==
    /\ engine = "script"
    /\ pc = "up"
    /\ stack # <<>>
    /\ Top.listed
    /\ Top.todo = {}
    /\ stack' = Pop
    /\ pc' = IF Len(stack) = 1 THEN "done" ELSE pc
    /\ UNCHANGED <<config, fs, drive, now, calls, events, failed, budget, runsLeft, prev>>

----------------------------------------------------------------------------
(* src/classes/GoogleDriveService.py *)

GDOC_MIME == "application/vnd.google-apps.document"

\* A test for the folder type only.
IsWorkspaceMime_FoldersOnly(mime) == mime = FOLDER_MIME

\* item_mime_type.startswith('application/vnd.google-apps')
IsWorkspaceMime(mime) == mime \in {FOLDER_MIME, GDOC_MIME}

Sizes == {1, 2}
Hashes == {"h1", "h2"}

RECURSIVE SortedSeq(_)
SortedSeq(S) == IF S = {} THEN <<>> ELSE <<Min(S)>> \o SortedSeq(S \ {Min(S)})

\* get_item_id: items[0].get('id'); None on an HttpError.
GetItemId(s, name, fid, mime, o) ==
    LET r == ApiFind(s, name, fid, mime, o)
    IN IF r.err = "http" THEN Caught(r) ELSE r

\* get_folder_id
GetFolderId(s, name, fid, o) == GetItemId(s, name, fid, FOLDER_MIME, o)

\* create_folder: the id of an existing folder of that name, else the id of
\* the created one, None on an HttpError of the create.
SvcCreateFolder(s, name, fid, o1, o2) ==
    LET r1 == GetFolderId(s, name, fid, o1) IN
    IF r1.err = "error" \/ r1.id # NoId
    THEN r1
    ELSE LET r == ApiCreateFolder(r1, name, fid, o2)
         IN IF r.err = "http" THEN Caught(r) ELSE r

\* upload_file: the media object is built first, outside the try; then
\* update when asked to with an id, else update the item that already has
\* the name in the folder, else create.  Every exception inside the try is
\* caught and None returned.
SvcUploadFile(s, p, name, fid, update_existing, exid, o1, o2) ==
    LET e == s.fs[p]
        direct == update_existing /\ exid # NoId
        m == OpenMedia(s, p, IF direct THEN "update" ELSE "upload",
                       IF direct THEN exid ELSE fid, name)
    IN IF m.err # "ok"
       THEN m
       ELSE IF direct
            THEN Caught(ApiUpdate(m, exid, name, e, o2))
            ELSE LET r1 == GetItemId(m, name, fid, "", o1) IN
                 IF r1.err = "error"
                 THEN Caught(r1)
                 ELSE IF r1.id # NoId
                      THEN Caught(ApiUpdate(r1, r1.id, name, e, o2))
                      ELSE Caught(ApiCreateFile(r1, name, fid, e, o2))

\* download_file that removes the target file when the download fails.
SvcDownloadFile_RemovesOnFailure(s, id, p, name, sz, h, o) ==
    LET r == ApiDownload(s, id, p, name, sz, h, o)
    IN IF r.err = "ok" THEN r ELSE Caught([r EXCEPT !.fs = [@ EXCEPT ![p] = NoEntry]])

\* download_file: False on any exception.
SvcDownloadFile(s, id, p, name, sz, h, o) == Caught(ApiDownload(s, id, p, name, sz, h, o))

\* list_folder_contents: [] on an HttpError; any other exception leaves it.
\* id = NoId stands for the empty answer of a failed listing.
SvcListFolderContents(s, fid, o) ==
    LET r == ApiList(s, fid, o)
    IN IF r.err = "http" THEN Caught(r) ELSE r

----------------------------------------------------------------------------
(* src/classes/SyncManager.py *)

\* perform_upload with a remote_wins branch that compares the timestamps.
PerformUpload_RemoteWinsCompares(lm, rm, pol) ==
    IF rm # 0
    THEN IF pol \in {"newer_wins", "remote_wins"} THEN lm > rm
         ELSE pol = "local_wins"
    ELSE TRUE

\* sync_to_drive, lines 171-199: perform_upload for a local file with mtime
\* lm whose name is a remote file with modifiedTime rm (0 = absent).
PerformUpload(lm, rm, pol) ==
    IF rm # 0
    THEN IF pol = "newer_wins" THEN lm > rm
         ELSE pol = "local_wins"
    ELSE TRUE

\* sync_from_drive, lines 289-308: perform_download for a remote file whose
\* name is an existing local file.
PerformDownload(lm, rm, pol) ==
    IF rm = 0
    THEN TRUE
    ELSE IF pol = "newer_wins" THEN rm > lm
         ELSE pol = "remote_wins"

\* os.makedirs(p) without exist_ok: a path that exists raises.
MakeDirs_NotExistOk(s, p) ==
    IF s.fs[p].kind = "none"
    THEN [s EXCEPT !.fs = [@ EXCEPT ![p] = DirEntry], !.err = "ok"]
    ELSE [s EXCEPT !.err = "error"]

\* os.makedirs(p, exist_ok=True): creates the directory that is missing,
\* leaves the one that exists alone and raises when p is a file.
MakeDirs(s, p) ==
    IF s.fs[p].kind = "none"
    THEN [s EXCEPT !.fs = [@ EXCEPT ![p] = DirEntry], !.err = "ok"]
    ELSE IF s.fs[p].kind = "dir"
         THEN [s EXCEPT !.err = "ok"]
         ELSE [s EXCEPT !.err = "error"]

\* An exception that nothing in SyncManager catches reaches main(), which
\* prints it: the run is over.
Raised(r) == r.err = "error"

\* run() with _ensure_drive_base_folder_exists, lines 34-57 and 350-374.
SM_Run ==
    /\ engine = "manager"
    /\ pc = "start"
    /\ \E o1, o2, o3 \in OutcomeSet :
         LET r1 == GetFolderId(Start(now), DRIVE_BACKUP_ROOT_FOLDER_NAME, RootAlias, o1)
             r == IF Raised(r1) \/ r1.id # NoId
                  THEN r1
                  ELSE IF ~dryRun
                       THEN SvcCreateFolder(r1, DRIVE_BACKUP_ROOT_FOLDER_NAME, RootAlias, o2, o3)
                       ELSE [Note(r1, Event("would_create_base", RootAlias,
                                            DRIVE_BACKUP_ROOT_FOLDER_NAME))
                                EXCEPT !.id = NoId]
         IN /\ Commit(Caught(r))
            /\ IF Raised(r) \/ r.id = NoId
               THEN pc' = "aborted" /\ stack' = <<>>
               ELSE IF direction = "down"
                    THEN pc' = "down" /\ stack' = <<Frame("down", <<>>, r.id)>>
                    ELSE pc' = "up" /\ stack' = <<Frame("up", <<>>, r.id)>>
    /\ UNCHANGED <<config, runsLeft, prev>>

\* sync_to_drive, lines 110-119: list the Drive folder, then os.listdir,
\* which raises FileNotFoundError when the local directory is gone.
SM_UpList ==
    /\ engine = "manager"
    /\ pc = "up"
    /\ stack # <<>>
    /\ ~Top.listed
    /\ \E o \in OutcomeSet :
         LET f == Top
             l == SvcListFolderContents(Start(now), f.rid, o)
             r == IF Raised(l) \/ fs[f.dir].kind = "dir"
                  THEN l
                  ELSE [l EXCEPT !.err = "error",
                                 !.failed = @ \cup {Failure("listdir", f.rid, "")}]
         IN /\ Commit(Caught(r))
            /\ IF Raised(r)
               THEN pc' = "aborted" /\ stack' = <<>>
               ELSE /\ pc' = pc
                    /\ stack' = SetTop([f EXCEPT !.listed = TRUE,
                                                 !.map = IF r.id = NoId THEN EmptyMap
                                                         ELSE NameMap(drive, f.rid),
                                                 !.todo = ChildNames(fs, f.dir)])
    /\ UNCHANGED <<config, runsLeft, prev>>

\* sync_to_drive, lines 119-219: one iteration of the loop over os.listdir.
\* An entry that is neither isdir nor isfile any more is passed over.
SM_UpItem ==
    /\ engine = "manager"
    /\ pc = "up"
    /\ stack # <<>>
    /\ Top.listed
    /\ \E n \in Top.todo, o1, o2 \in OutcomeSet, t \in Stamps :
         LET f == Top
             p == Child(f.dir, n)
             ex == f.map[n]
             rest == [f EXCEPT !.todo = @ \ {n}]
             isDir == fs[p].kind = "dir"
             gone == fs[p].kind = "none"
             clash == ex # 0 /\ (isDir <=> ~IsFolder(drive[ex]))
             perform == ex = 0 \/ PerformUpload(fs[p].mtime, drive[ex].modifiedTime, policy)
             r == IF clash \/ gone
                  THEN Start(t)
                  ELSE IF isDir
                       THEN IF ex # 0
                            THEN [Start(t) EXCEPT !.id = RealId(ex)]
                            ELSE IF ~dryRun
                                 THEN SvcCreateFolder(Start(t), n, f.rid, o1, o2)
                                 ELSE [Note(Start(t), Event("would_create_folder", f.rid, n))
                                          EXCEPT !.id = SimulatedFolderId(n)]
                       ELSE IF ~perform
                            THEN Start(t)
                            ELSE IF ~dryRun
                                 THEN SvcUploadFile(Start(t), p, n, f.rid, ex # 0,
                                                    IF ex # 0 THEN RealId(ex) ELSE NoId,
                                                    o1, o2)
                                 ELSE IF ex # 0
                                      THEN Note(Start(t), Event("would_update", RealId(ex), n))
                                      ELSE Note(Start(t), Event("would_upload", f.rid, n))
             descend == ~clash /\ isDir /\ r.id # NoId
         IN /\ Commit(Caught(r))
            /\ IF Raised(r)
               THEN pc' = "aborted" /\ stack' = <<>>
               ELSE /\ pc' = pc
                    /\ stack' = IF descend
                                THEN Append(SetTop(rest), Frame("up", p, r.id))
                                ELSE SetTop(rest)
    /\ UNCHANGED <<config, runsLeft, prev>>

\* The pull of a two-way run starts as soon as any sync_to_drive returns.
SM_UpReturn_EarlyPull ==
    /\ engine = "manager"
    /\ pc = "up"
    /\ stack # <<>>
    /\ Top.listed
    /\ Top.todo = {}
    /\ IF direction = "two-way"
       THEN stack' = <<Frame("down", <<>>, stack[1].rid)>> /\ pc' = "down"
       ELSE IF Len(stack) > 1
            THEN stack' = Pop /\ pc' = pc
            ELSE stack' = <<>> /\ pc' = "done"
    /\ UNCHANGED <<config, fs, drive, now, calls, events, failed, budget, runsLeft, prev>>

\* sync_to_drive returns; run(), lines 369-374: in a two-way run the pull
\* follows the push.
SM_UpReturn ==
    /\ engine = "manager"
    /\ pc = "up"
    /\ stack # <<>>
    /\ Top.listed
    /\ Top.todo = {}
    /\ IF Len(stack) > 1
       THEN stack' = Pop /\ pc' = pc
       ELSE IF direction = "two-way"
            THEN stack' = <<Frame("down", <<>>, Top.rid)>> /\ pc' = "down"
            ELSE stack' = <<>> /\ pc' = "done"
    /\ UNCHANGED <<config, fs, drive, now, calls, events, failed, budget, runsLeft, prev>>

\* sync_from_drive, lines 244-252: os.makedirs(local_target_path,
\* exist_ok=True), then list the Drive folder; return when it is empty.
SM_DownList ==
    /\ engine = "manager"
    /\ pc = "down"
    /\ stack # <<>>
    /\ ~Top.listed
    /\ \E o \in OutcomeSet :
         LET f == Top
             made == MakeDirs(Start(now), f.dir)
             r == IF Raised(made) THEN made ELSE SvcListFolderContents(made, f.rid, o)
             items == IF r.id = NoId THEN <<>> ELSE SortedSeq(ChildIds(drive, f.rid))
         IN /\ Commit(Caught(r))
            /\ IF Raised(r)
               THEN pc' = "aborted" /\ stack' = <<>>
               ELSE IF items = <<>>
                    THEN stack' = Pop /\ pc' = IF Len(stack) = 1 THEN "done" ELSE pc
                    ELSE /\ pc' = pc
                         /\ stack' = SetTop([f EXCEPT !.listed = TRUE, !.items = items])
    /\ UNCHANGED <<config, runsLeft, prev>>

\* A type check that only looks at remote folders.
PullClash_FoldersOnly(it, loc) == IsFolder(it) /\ loc.kind = "file"

\* sync_from_drive, lines 270-272 and 282-284: the remote item and the local
\* entry of its name have different types.
PullClash(it, loc) == IF IsFolder(it) THEN loc.kind = "file" ELSE loc.kind = "dir"

\* sync_from_drive, lines 254-337: one iteration of the loop over the
\* listed remote items.
SM_DownItem ==
    /\ engine = "manager"
    /\ pc = "down"
    /\ stack # <<>>
    /\ Top.listed
    /\ Top.items # <<>>
    /\ \E o \in OutcomeSet, sz \in Sizes, h \in Hashes, t \in Stamps :
         LET f == Top
             id == Head(f.items)
             it == drive[id]
             p == Child(f.dir, it.name)
             rest == [f EXCEPT !.items = Tail(@)]
             loc == fs[p]
             clash == PullClash(it, loc)
             perform == loc.kind = "none" \/ PerformDownload(loc.mtime, it.modifiedTime, policy)
             r == IF clash
                  THEN Start(t)
                  ELSE IF IsFolder(it)
                       THEN IF loc.kind # "none"
                            THEN Start(t)
                            ELSE IF ~dryRun
                                 THEN MakeDirs(Start(t), p)
                                 ELSE Note(Start(t), Event("would_mkdir", RealId(id), it.name))
                       ELSE IF ~perform
                            THEN Start(t)
                            ELSE IF ~dryRun
                                 THEN IF IsWorkspaceMime(it.mimeType)
                                      THEN Start(t)
                                      ELSE SvcDownloadFile(Start(t), RealId(id), p, it.name, sz, h, o)
                                 ELSE Note(Start(t), Event("would_download", RealId(id), it.name))
         IN /\ Commit(Caught(r))
            /\ pc' = pc
            /\ stack' = IF ~clash /\ IsFolder(it)
                        THEN Append(SetTop(rest), Frame("down", p, RealId(id)))
                        ELSE SetTop(rest)
    /\ UNCHANGED <<config, runsLeft, prev>>

\* sync_from_drive returns once the loop has run out of items.
SM_DownReturn ==
    /\ engine = "manager"
    /\ pc = "down"
    /\ stack # <<>>
    /\ Top.listed
    /\ Top.items = <<>>
    /\ stack' = Pop
    /\ pc' = IF Len(stack) = 1 THEN "done" ELSE pc
    /\ UNCHANGED <<config, fs, drive, now, calls, events, failed, budget, runsLeft, prev>>

----------------------------------------------------------------------------
(* src/refactor_WIP/sync_manager.py, src/refactor_WIP/drive_client.py *)

\* A temporary path that is the final path itself.
TempPath_InPlace(name) == <<name>>

\* temp_path = file_path + '.tmp'
TempPath(name) == <<name \o ".tmp">>

\* What io.FileIO(path, 'wb') leaves when the download does not complete.
Partial(t) == FileEntry(t, 0, "none")

\* DriveClient.download_file(file_id, file_path): opens the target for
\* writing, then fetches the content; nothing is caught.  The Drive refuses
\* get_media for a folder.
DcDownloadFile(s, id, p, name, sz, h, o) ==
    LET r == ApiDownload(s, id, p, name, sz, h, o)
        cut == [s.fs EXCEPT ![p] = Partial(s.now)]
    IN IF r.err # "ok"
       THEN [r EXCEPT !.fs = cut, !.stamped = TRUE]
       ELSE IF IsFolder(s.drive[id.n])
            THEN [Log(s, Call("download", id, name))
                     EXCEPT !.fs = cut, !.stamped = TRUE, !.err = "http", !.id = NoId,
                            !.failed = @ \cup {Failure("download", id, name)}]
            ELSE r

\* os.rename(src, dst): raises when dst is a directory.
Rename(s, src, dst) ==
    IF src = dst
    THEN s
    ELSE IF s.fs[dst].kind = "dir"
         THEN [s EXCEPT !.err = "error"]
         ELSE [s EXCEPT !.fs = [@ EXCEPT ![dst] = s.fs[src], ![src] = NoEntry]]

\* crypto_utils.encrypt_file(src, dst), then os.remove(src).
Encrypt(s, src, dst) ==
    IF s.fs[dst].kind = "dir"
    THEN [s EXCEPT !.err = "error"]
    ELSE LET enc == FileEntry(s.now, s.fs[src].size, "enc")
         IN IF src = dst
            THEN [s EXCEPT !.fs = [@ EXCEPT ![dst] = NoEntry]]
            ELSE [s EXCEPT !.fs = [@ EXCEPT ![dst] = enc, ![src] = NoEntry]]

\* sync_folder, lines 11-12: os.makedirs(local_dir), then list_files of the
\* folder; the frame's mode tells whether crypto_utils is set.
DSM_List ==
    /\ engine = "refactor"
    /\ pc = "start"
    /\ \E o \in OutcomeSet, mode \in {"plain", "encrypt"} :
         LET r == ApiList(MakeDirs(Start(now), <<>>), RealId(1), o)
         IN /\ Commit(Caught(r))
            /\ IF r.err # "ok"
               THEN pc' = "aborted" /\ stack' = <<>>
               ELSE /\ pc' = "down"
                    /\ stack' = <<[Frame(mode, <<>>, RealId(1))
                                     EXCEPT !.listed = TRUE,
                                            !.items = SortedSeq(ChildIds(drive, RealId(1)))]>>
    /\ UNCHANGED <<config, runsLeft, prev>>

\* sync_folder, lines 14-31: one iteration of the loop over the listed
\* files.  An exception ends sync_folder.
DSM_Item ==
    /\ engine = "refactor"
    /\ pc = "down"
    /\ stack # <<>>
    /\ Top.items # <<>>
    /\ \E o \in OutcomeSet, sz \in Sizes, h \in Hashes, t \in Stamps :
         LET f == Top
             id == Head(f.items)
             it == drive[id]
             p == <<it.name>>
             tmp == TempPath(it.name)
             skip == fs[p].kind # "none" /\ fs[p].mtime >= it.modifiedTime
             d == DcDownloadFile(Start(t), RealId(id), tmp, it.name, sz, h, o)
             r == IF skip
                  THEN Start(t)
                  ELSE IF d.err # "ok"
                       THEN d
                       ELSE IF f.mode = "encrypt"
                            THEN Encrypt(d, tmp, p)
                            ELSE Rename(d, tmp, p)
         IN /\ Commit(Caught(r))
            /\ IF r.err # "ok"
               THEN pc' = "aborted" /\ stack' = <<>>
               ELSE pc' = pc /\ stack' = SetTop([f EXCEPT !.items = Tail(@)])
    /\ UNCHANGED <<config, runsLeft, prev>>

\* sync_folder returns once the loop has run out of files.
DSM_Return ==
    /\ engine = "refactor"
    /\ pc = "down"
    /\ stack # <<>>
    /\ Top.items = <<>>
    /\ pc' = "done"
    /\ stack' = <<>>
    /\ UNCHANGED <<config, fs, drive, now, calls, events, failed, budget, runsLeft, prev>>

\* One step of DriveSyncManager.
WalkWip == DSM_List \/ DSM_Item \/ DSM_Return

----------------------------------------------------------------------------
(* Successive runs *)

Mutating == {"create_folder", "upload", "update"}

\* The program is started again on the trees the last run left, with the
\* same settings.
Restart ==
    /\ pc \in {"done", "aborted"}
    /\ runsLeft > 0
    /\ runsLeft' = runsLeft - 1
    /\ prev' = [pc |-> pc, failed |-> failed, drive |-> drive, fs |-> fs]
    /\ pc' = "start"
    /\ stack' = <<>>
    /\ calls' = <<>>
    /\ events' = <<>>
    /\ failed' = {}
    /\ UNCHANGED <<config, fs, drive, now, budget>>

\* p is q or lies above it.
IsPrefix(p, q) == Len(p) <= Len(q) /\ SubSeq(q, 1, Len(p)) = p

\* Someone deletes a local file or directory while a walk is under way.
Vanish ==
    /\ pc \in {"up", "down"}
    /\ stack # <<>>
    /\ budget > 0
    /\ budget' = budget - 1
    /\ \E p \in Paths \ {<<>>} :
         /\ fs[p].kind # "none"
         /\ fs' = [q \in Paths |-> IF IsPrefix(p, q) THEN NoEntry ELSE fs[q]]
    /\ UNCHANGED <<config, drive, now, pc, stack, calls, events, failed, runsLeft, prev>>

----------------------------------------------------------------------------
(* Initial states: the settings, a local tree and a remote tree.           *)

Policies == {"newer_wins", "local_wins", "remote_wins", "skip"}
Directions == {"up", "down", "two-way"}

\* One entry below the root and what lies in it: top is the entry, sub the
\* entry named "c" inside it when top is a directory.
LocalOptions(files, subs) ==
    {[top |-> NoEntry, sub |-> NoEntry]}
    \cup {[top |-> e, sub |-> NoEntry] : e \in files}
    \cup {[top |-> DirEntry, sub |-> e] : e \in {NoEntry} \cup subs}

LocalTree(oa, ob) ==
    [p \in Paths |->
        CASE p = <<>> -> DirEntry
          [] p = <<"a">> -> oa.top
          [] p = <<"a", "c">> -> oa.sub
          [] p = <<"b">> -> ob.top
          [] p = <<"b", "c">> -> ob.sub
          [] OTHER -> NoEntry]

NoItem == Item("", 0, "", 0, 0, "none")

\* Remote counterpart: top and sub are items whose parent is filled in when
\* the store is built; a sub item needs a folder above it.
RemoteOptions(files, subs) ==
    {[top |-> NoItem, sub |-> NoItem]}
    \cup {[top |-> e, sub |-> NoItem] : e \in files}
    \cup {[top |-> FolderItem("", 0), sub |-> e] : e \in {NoItem} \cup subs}

Under(d, o, name, parent) ==
    IF o.top = NoItem
    THEN d
    ELSE LET d1 == Append(d, [o.top EXCEPT !.name = name, !.parent = parent])
         IN IF o.sub = NoItem
            THEN d1
            ELSE Append(d1, [o.sub EXCEPT !.name = "c", !.parent = Len(d1)])

\* The store with the backup folder (id 1) and the two options below it.
RemoteTree(oa, ob) ==
    Under(Under(<<FolderItem(DRIVE_BACKUP_ROOT_FOLDER_NAME, 0)>>, oa, "a", 1), ob, "b", 1)

RemoteFile(t, sz, h) == Item("", 0, FILE_MIME, t, sz, h)

Cfg(e, d, h, dir, pol) ==
    [engine |-> e, dryRun |-> d, compareHashes |-> h, direction |-> dir, policy |-> pol]

\* The script only pushes and has no conflict policy.
ScriptConfigs(dry, hashes) ==
    {Cfg("script", d, h, "up", "newer_wins") : d \in dry, h \in hashes}

ManagerConfigs(dry, hashes, dirs, pols) ==
    {Cfg("manager", d, h, dir, pol) : d \in dry, h \in hashes, dir \in dirs, pol \in pols}

World(f, d) == [fs |-> f, drive |-> d]

\* A run starts with settings c on world w; the environment may inject up
\* to nb failures and the program may be started nr more times.
InitWith(configs, worlds, budgets, restarts) ==
    /\ \E c \in configs :
         /\ engine = c.engine
         /\ dryRun = c.dryRun
         /\ compareHashes = c.compareHashes
         /\ direction = c.direction
         /\ policy = c.policy
    /\ \E w \in worlds : fs = w.fs /\ drive = w.drive
    /\ budget \in budgets
    /\ runsLeft \in restarts
    /\ now = MaxTime - 1
    /\ pc = "start"
    /\ stack = <<>>
    /\ calls = <<>>
    /\ events = <<>>
    /\ failed = {}
    /\ prev = [pc |-> "none", failed |-> {}, drive |-> <<>>, fs |-> <<>>]

\* Files as old as can be, files three seconds younger than the oldest
\* remote ones, and such a file that cannot be read.
LocalOld == FileEntry(1, 1, "h1")
LocalNew == FileEntry(5, 1, "h1")
LocalLocked == FileEntry(5, 1, "none")
RemoteOld == RemoteFile(2, 1, "h1")
RemoteBare == RemoteFile(0, 1, "h1")
RemoteFolder == FolderItem("", 0)

\* Every shape of tree over Paths, with the given kinds of file: "a" is
\* anything, "b" is absent, a file or an empty folder.
Worlds(lf, rf) ==
    {World(LocalTree(la, lb), RemoteTree(ra, rb)) :
        la \in LocalOptions(lf, lf \cup {DirEntry}), lb \in LocalOptions(lf, {}),
        ra \in RemoteOptions(rf, rf \cup {RemoteFolder}), rb \in RemoteOptions(rf, {})}

\* The same local trees against a Drive that has no backup folder yet.
FreshWorlds(lf) ==
    {World(LocalTree(la, lb), <<>>) :
        la \in LocalOptions(lf, lf \cup {DirEntry}), lb \in LocalOptions(lf, {})}

\* One step of a run.
Walk ==
    \/ GS_Main \/ GS_List \/ GS_Item \/ GS_Return
    \/ SM_Run \/ SM_UpList \/ SM_UpItem \/ SM_UpReturn
    \/ SM_DownList \/ SM_DownItem \/ SM_DownReturn

Next == Walk \/ Restart

\* Real runs without failures, the program started twice.
Init ==
    InitWith(ScriptConfigs({FALSE}, {TRUE}) \cup
             ManagerConfigs({FALSE}, {FALSE}, Directions, Policies),
             Worlds({LocalNew}, {RemoteOld}) \cup FreshWorlds({LocalNew}),
             {0}, {MaxRuns - 1})

Spec == Init /\ [][Next]_vars

\* One real run in which a collaborator may fail.
InitFaults ==
    InitWith(ScriptConfigs({FALSE}, {TRUE}) \cup
             ManagerConfigs({FALSE}, {FALSE}, Directions, Policies),
             Worlds({LocalNew, LocalLocked}, {RemoteOld}) \cup FreshWorlds({LocalNew}),
             {MaxFaults}, {0})

SpecFaults == InitFaults /\ [][Walk]_vars

\* One real run under newer_wins in which a collaborator may fail.
InitLive ==
    InitWith(ScriptConfigs({FALSE}, {TRUE}) \cup
             ManagerConfigs({FALSE}, {FALSE}, Directions, {"newer_wins"}),
             Worlds({LocalNew, LocalLocked}, {RemoteOld}),
             {MaxFaults}, {0})

\* Such a run, in which the program goes on as long as it has a step to
\* take: a statement that can run does run.
SpecLive == InitLive /\ [][Walk]_vars /\ WF_vars(Walk)

\* One dry run in which a collaborator may fail.
InitDry ==
    InitWith(ScriptConfigs({TRUE}, {TRUE}) \cup
             ManagerConfigs({TRUE}, {FALSE}, Directions, {"newer_wins"}),
             Worlds({LocalNew}, {RemoteOld}) \cup FreshWorlds({LocalNew}),
             {0, MaxFaults}, {0})

SpecDry == InitDry /\ [][Walk]_vars

\* One file "a" on both sides, with every combination of metadata.
FileWorlds ==
    {World(LocalTree([top |-> FileEntry(lt, ls, lh), sub |-> NoEntry],
                     [top |-> NoEntry, sub |-> NoEntry]),
           RemoteTree([top |-> RemoteFile(rt, rs, rh), sub |-> NoItem],
                      [top |-> NoItem, sub |-> NoItem])) :
        lt \in 1..(MaxTime - 1), ls \in Sizes, lh \in Hashes \cup {"none"},
        rt \in {0, 2, 4}, rs \in {0, 1}, rh \in {"none", "h1"}}

\* One run, dry or real, over one file, without failures.
InitFile ==
    InitWith(ScriptConfigs(BOOLEAN, BOOLEAN) \cup
             ManagerConfigs(BOOLEAN, BOOLEAN, {"up", "down"}, Policies),
             FileWorlds, {0}, {0})

SpecFile == InitFile /\ [][Walk]_vars

\* One run, real or dry, during which a request may fail or a local entry
\* may be deleted.
InitVanish ==
    InitWith(ScriptConfigs(BOOLEAN, {TRUE}) \cup
             ManagerConfigs(BOOLEAN, {FALSE}, Directions, {"newer_wins"}),
             Worlds({LocalNew}, {RemoteOld}),
             {MaxFaults}, {0})

SpecVanish == InitVanish /\ [][Walk \/ Vanish]_vars

\* The backup folder holds two items named "a", of any kind each.
DupWorlds ==
    {World(LocalTree(la, lb),
           <<FolderItem(DRIVE_BACKUP_ROOT_FOLDER_NAME, 0),
             [x EXCEPT !.name = "a", !.parent = 1],
             [y EXCEPT !.name = "a", !.parent = 1]>>) :
        la \in LocalOptions({LocalNew}, {LocalNew}), lb \in LocalOptions({LocalNew}, {}),
        x \in {RemoteOld, RemoteFolder}, y \in {RemoteOld, RemoteBare, RemoteFolder}}

\* Local trees with a hidden entry ".h" (a file, or a directory that may
\* hold a file), maybe the junk file "Thumbs.db" and maybe a file "b",
\* against an empty backup folder or one that holds a folder ".h".
HiddenWorlds ==
    {World([LocalTree([top |-> NoEntry, sub |-> NoEntry], lb)
               EXCEPT ![<<".h">>] = lh.top, ![<<".h", "c">>] = lh.sub,
                      ![<<"Thumbs.db">>] = lj],
           IF rh THEN <<FolderItem(DRIVE_BACKUP_ROOT_FOLDER_NAME, 0), FolderItem(".h", 1)>>
           ELSE <<FolderItem(DRIVE_BACKUP_ROOT_FOLDER_NAME, 0)>>) :
        lh \in LocalOptions({LocalNew}, {LocalNew}) \ {[top |-> NoEntry, sub |-> NoEntry]},
        lj \in {NoEntry, LocalNew},
        lb \in LocalOptions({LocalNew}, {}),
        rh \in BOOLEAN}

\* One run, real or dry, without failures, over such a tree.
InitHidden ==
    InitWith(ScriptConfigs(BOOLEAN, {TRUE}) \cup
             ManagerConfigs(BOOLEAN, {FALSE}, Directions, {"newer_wins"}),
             HiddenWorlds, {0}, {0})

SpecHidden == InitHidden /\ [][Walk]_vars

\* A Google document: the Drive gives it neither a size nor a digest.
RemoteDoc(t) == Item("", 0, GDOC_MIME, t, 0, "none")

\* The backup folder holds a Google document "a", with or without a
\* modified time, and maybe a file "b"; locally "a" is absent or a file
\* older or newer than the document, and "b" is anything.
DocWorlds ==
    {World(LocalTree(la, lb),
           RemoteTree([top |-> RemoteDoc(rt), sub |-> NoItem], rb)) :
        la \in LocalOptions({LocalOld, LocalNew}, {}) \ {[top |-> DirEntry, sub |-> NoEntry]},
        lb \in LocalOptions({LocalNew}, {}),
        rt \in {0, 4},
        rb \in RemoteOptions({RemoteOld}, {})}

\* One run, real or dry, without failures, over such a Drive.
InitDocs ==
    InitWith(ScriptConfigs({FALSE}, {FALSE}) \cup
             ManagerConfigs(BOOLEAN, {FALSE}, Directions, Policies),
             DocWorlds, {0}, {0})

SpecDocs == InitDocs /\ [][Walk]_vars

\* The backup folder holds "a" and "b", each absent, a file or a folder;
\* locally each is absent, a file older than the remote file, one of the
\* same age, or ("a") a directory.
WipWorlds ==
    {World(LocalTree(la, lb), RemoteTree(ra, rb)) :
        la \in LocalOptions({LocalOld, FileEntry(2, 2, "h2")}, {}),
        lb \in LocalOptions({LocalOld}, {}) \ {[top |-> DirEntry, sub |-> NoEntry]},
        ra \in RemoteOptions({RemoteOld}, {}),
        rb \in RemoteOptions({RemoteOld}, {}) \ {[top |-> FolderItem("", 0), sub |-> NoItem]}}

\* One run of DriveSyncManager.sync_folder in which a collaborator may fail.
InitWip ==
    InitWith({Cfg("refactor", FALSE, FALSE, "down", "newer_wins")},
             WipWorlds, {MaxFaults}, {0})

SpecWip == InitWip /\ [][WalkWip]_vars

\* One run, real or dry, without failures, over a Drive with duplicates.
InitDup ==
    InitWith(ScriptConfigs(BOOLEAN, {TRUE}) \cup
             ManagerConfigs(BOOLEAN, {FALSE}, Directions, {"newer_wins"}),
             DupWorlds, {0}, {0})

SpecDup == InitDup /\ [][Walk]_vars

----------------------------------------------------------------------------
(* Properties *)

Ops(c) == {c[i].op : i \in 1..Len(c)}
Evs(ev) == {i \in 1..Len(events) : events[i].ev = ev}

\* What a step adds to the logs.
NewCalls == SubSeq(calls', Len(calls) + 1, Len(calls'))
NewEvents == SubSeq(events', Len(events) + 1, Len(events'))

BackupFolder == FolderItem(DRIVE_BACKUP_ROOT_FOLDER_NAME, 0)

\* C1 (as claimed): a walk (push or pull) that follows a completed real walk
\* without failures, with nothing changed in between, issues no
\* create-folder, upload, update or download call.
C1_SecondWalkIssuesNoCall ==
    (/\ prev.pc = "done" /\ prev.failed = {}
     /\ ~dryRun /\ direction \in {"up", "down"} /\ failed = {})
    => Ops(calls) \cap (Mutating \cup {"download"}) = {}

\* C2 (as claimed): in a dry run no request sent to the Drive client carries
\* a placeholder id.
C2_NoPlaceholderReachesClient ==
    dryRun => \A i \in 1..Len(calls) : ~IsPlaceholder(calls[i].id)

\* C3: in a dry run no step changes the remote store and no create-folder,
\* upload, update or download request is ever sent, from the resolution of
\* the root folder to the end of the run.
C3_DryRunSendsNoMutation ==
    [][dryRun => /\ drive' = drive
                 /\ Ops(calls') \cap (Mutating \cup {"download"}) = {}]_vars

C3_Witness ==
    /\ dryRun /\ pc = "done"
    /\ Evs("would_create_folder") # {}
    /\ Evs("would_upload") # {}
    /\ Evs("would_update") # {}

\* The case of C4: a dry run of a push, the backup folder exists and is
\* empty, the local tree is file "b" and folder "a" holding file "c", and
\* the run has ended without a failed request.
C4_Case ==
    /\ dryRun /\ direction = "up"
    /\ drive = <<BackupFolder>>
    /\ fs[<<"a">>].kind = "dir" /\ fs[<<"a", "c">>].kind = "file"
    /\ fs[<<"b">>].kind = "file"
    /\ pc = "done" /\ failed = {}

\* C4 (as claimed): exactly two "would create/upload" events and no request
\* of the walk to the Drive client (the lookup of the root folder is not
\* counted).
C4_TwoEventsNoCall ==
    C4_Case => Len(events) = 2 /\ Ops(calls) \subseteq {"find"}

\* C4 (amended): exactly three events, the folder "a" and the files "b" and
\* "c", the last one under the placeholder id of "a"; the requests are
\* lookups and listings only, and in sync_directory_recursive the one
\* request of the walk is the listing of the real backup folder.
C4_ThreeEventsOneListing ==
    C4_Case =>
        /\ Len(events) = 3
        /\ Cardinality(Evs("would_create_folder")) = 1
        /\ Cardinality(Evs("would_upload")) = 2
        /\ \E i \in Evs("would_upload") :
             events[i].name = "c" /\ IsPlaceholder(events[i].id)
        /\ Ops(calls) \subseteq {"find", "list"}
        /\ engine = "script" =>
             calls = <<Call("find", RootAlias, DRIVE_BACKUP_ROOT_FOLDER_NAME),
                       Call("list", RealId(1), "")>>

C4_Witness == C4_Case /\ engine = "script" /\ Len(events) = 3

\* C5 (as claimed): in a dry run no step changes the local tree.
C5_DryRunLeavesLocalTree == [][dryRun => fs' = fs]_vars

\* The step that processes entry n of the directory a push walk is in.
PushItemStep(n) ==
    /\ pc = "up" /\ stack # <<>> /\ Top.listed /\ n \in Top.todo
    /\ Len(stack') >= Len(stack)
    /\ stack'[Len(stack)].todo = Top.todo \ {n}

\* Remote items named n lie in the folder being walked, and every one of
\* them has the other type than local entry n.
OtherType(n) ==
    LET S == {i \in ChildIds(drive, Top.rid) : drive[i].name = n}
    IN /\ S # {}
       /\ \A i \in S : (fs[Child(Top.dir, n)].kind = "file") <=> IsFolder(drive[i])

\* C6 (as claimed): the step for a local entry whose same-named remote item
\* has the other type sends no request, logs no simulated operation, changes
\* nothing remotely and does not descend; the siblings stay to be processed
\* and the walk goes on.
C6_ConflictSkipOnPush ==
    [][\A n \in Names :
         (PushItemStep(n) /\ OtherType(n)) =>
            /\ calls' = calls /\ events' = events /\ drive' = drive
            /\ stack' = SetTop([Top EXCEPT !.todo = @ \ {n}])
            /\ pc' = pc]_vars

\* The step of a push walk that decides about local file "a" against the
\* remote file the listing gave under that name.
PushFileStep ==
    /\ PushItemStep("a")
    /\ fs[<<"a">>].kind = "file"
    /\ Top.map["a"] # 0
    /\ ~IsFolder(drive[Top.map["a"]])

LocalA == fs[<<"a">>]
RemoteA == drive[Top.map["a"]]

\* The step updates the remote file, or logs that it would.
Updates ==
    \/ \E i \in 1..Len(NewCalls) : NewCalls[i].op = "update"
    \/ \E i \in 1..Len(NewEvents) : NewEvents[i].ev = "would_update"
    \/ \E f \in failed' \ failed : f.op = "update"

\* C7 (as claimed): with size and digest equal, a local file one second
\* newer than the remote one is not updated and one three seconds newer is.
C7_TimestampTolerance ==
    [][(/\ PushFileStep
        /\ RemoteA.modifiedTime # 0
        /\ RemoteA.size = LocalA.size
        /\ RemoteA.md5Checksum = LocalA.md5)
       => /\ LocalA.mtime = RemoteA.modifiedTime + 1 => ~Updates
          /\ LocalA.mtime = RemoteA.modifiedTime + 3 => Updates]_vars

\* C8: a local file whose remote file has no modifiedTime is updated (in a
\* dry run: logged as to be updated) whatever the local mtime, the sizes,
\* the digests, COMPARE_HASHES and the conflict policy are.
C8_MissingRemoteTimeUpdates ==
    [][(PushFileStep /\ RemoteA.modifiedTime = 0) => Updates]_vars

C8_Witness ==
    /\ engine = "manager" /\ policy = "remote_wins" /\ dryRun
    /\ direction = "up" /\ pc = "done"
    /\ Len(drive) = 2 /\ drive[2].modifiedTime = 0
    /\ drive[2].size = fs[<<"a">>].size /\ drive[2].md5Checksum = fs[<<"a">>].md5
    /\ Evs("would_update") # {}

\* C9 (as claimed): with sizes equal, timestamps within the tolerance of
\* each other and digests different, the file is updated exactly when hash
\* comparison is enabled.
C9_HashTier ==
    [][(/\ PushFileStep
        /\ RemoteA.modifiedTime # 0
        /\ LocalA.mtime <= RemoteA.modifiedTime + TOLERANCE
        /\ RemoteA.modifiedTime <= LocalA.mtime + TOLERANCE
        /\ RemoteA.size = LocalA.size
        /\ RemoteA.md5Checksum # "none"
        /\ RemoteA.md5Checksum # LocalA.md5)
       => (Updates <=> compareHashes)]_vars

\* The listing of a subfolder fails during a push walk.
SubfolderListingFails ==
    /\ pc = "up" /\ Len(stack) > 1 /\ ~Top.listed
    /\ \E f \in failed' \ failed : f.op = "list"

\* C10 (as claimed): when the listing of a subfolder fails, the walk goes
\* on and the enclosing directories keep all the entries they still have to
\* process.
C10_ListingFailureIsolated ==
    [][SubfolderListingFails =>
         /\ pc' = pc
         /\ Len(stack') >= Len(stack) - 1
         /\ SubSeq(stack', 1, Len(stack) - 1) = Pop]_vars

\* The step that resolves the root folder.
RootStep == pc = "start" /\ pc' # "start"

\* A lookup of the step answered and the backup folder is in the store.
FoundRoot ==
    /\ FindItem(drive, DRIVE_BACKUP_ROOT_FOLDER_NAME, RootAlias, FOLDER_MIME) # 0
    /\ \E i \in 1..Len(NewCalls) :
         /\ NewCalls[i].op = "find"
         /\ Cardinality({j \in 1..Len(NewCalls) : NewCalls[j].op = "find"})
              > Cardinality({f \in failed' \ failed : f.op = "find"})

\* The step created the backup folder, or (create_drive_folder in a dry
\* run) answered with the placeholder id of a folder that would be created.
CreatedRoot ==
    \/ Len(drive') > Len(drive)
    \/ \E i \in 1..Len(NewEvents) : NewEvents[i].ev = "would_create_folder"

TransferFails ==
    \E f \in failed' \ failed : f.op \in {"upload", "update", "download"}

\* C12: the step in which the transfer of a file fails ends the processing
\* of that entry only: the walk is not aborted, every enclosing directory
\* keeps what it has left to process, and the directory being walked has
\* lost exactly the one entry.
C12_TransferFailureIsolated ==
    [][TransferFails =>
         /\ pc' = pc
         /\ Len(stack') = Len(stack)
         /\ SubSeq(stack', 1, Len(stack) - 1) = Pop
         /\ \/ \E n \in Top.todo : stack'[Len(stack)] = [Top EXCEPT !.todo = @ \ {n}]
            \/ /\ Top.items # <<>>
               /\ stack'[Len(stack)] = [Top EXCEPT !.items = Tail(@)]
         /\ drive' = drive /\ fs' = fs]_vars

\* The walk is about to open a local directory that is gone.
OpensVanished == pc = "up" /\ stack # <<>> /\ ~Top.listed /\ fs[Top.dir].kind = "none"

\* C13 (as claimed): an entry that is gone when its turn comes is passed
\* over without a request, and a directory that is gone when the walk
\* opens it ends the processing of that directory only; in both cases the
\* walk goes on with everything the enclosing directories have left.
C13_VanishedEntrySkipped ==
    [][/\ \A n \in Names :
            (PushItemStep(n) /\ fs[Child(Top.dir, n)].kind = "none") =>
               /\ calls' = calls /\ events' = events /\ drive' = drive
               /\ stack' = SetTop([Top EXCEPT !.todo = @ \ {n}])
               /\ pc' = pc
       /\ OpensVanished =>
            /\ pc' # "aborted"
            /\ SubSeq(stack', 1, Len(stack) - 1) = Pop]_vars

\* C14: no step of a run removes or renames anything: a local path that
\* holds a file stays a file and one that holds a directory stays a
\* directory, and every remote item keeps its id, its name, its parent and
\* its being a folder or not.
C14_NothingDeletedOrRenamed ==
    [][/\ \A p \in Paths : fs[p].kind # "none" => fs'[p].kind = fs[p].kind
       /\ Len(drive') >= Len(drive)
       /\ \A i \in 1..Len(drive) :
            /\ drive'[i].name = drive[i].name
            /\ drive'[i].parent = drive[i].parent
            /\ drive'[i].mimeType = drive[i].mimeType]_vars

\* A two-way run has replaced contents on both sides and has met a failure.
C14_Witness ==
    /\ pc = "done" /\ direction = "two-way" /\ failed # {}
    /\ {"update", "download"} \subseteq Ops(calls)

\* C15: in a two-way run the walk starts as a push; while it pushes, no
\* step downloads or touches the local tree; the pull starts when the push
\* has returned from the root directory, at the root folder; while it
\* pulls, no step creates, uploads or updates, so what it lists is what
\* the push left; and the run ends regularly only out of the pull.
C15_PushThenPull ==
    [][direction = "two-way" =>
         /\ (RootStep /\ pc' # "aborted") => pc' = "up"
         /\ pc = "up" =>
              /\ fs' = fs
              /\ \A i \in 1..Len(NewCalls) : NewCalls[i].op # "download"
              /\ pc' # "done"
         /\ (pc = "up" /\ pc' = "down") =>
              /\ Len(stack) = 1 /\ Top.listed /\ Top.todo = {}
              /\ stack' = <<Frame("down", <<>>, Top.rid)>>
         /\ pc = "down" =>
              /\ drive' = drive
              /\ \A i \in 1..Len(NewCalls) : NewCalls[i].op \notin Mutating
              /\ pc' # "up"]_vars

\* A two-way run has created a folder and uploaded in its push and has
\* downloaded in its pull.
C15_Witness ==
    /\ pc = "done" /\ direction = "two-way" /\ failed = {}
    /\ {"create_folder", "upload", "download"} \subseteq Ops(calls)
    /\ \A i, j \in 1..Len(calls) :
         (calls[i].op \in Mutating /\ calls[j].op = "download") => i < j

\* The step of a pull walk that decides about the remote file next in the
\* listing, whose name is an existing local file.
PullFileStep ==
    /\ pc = "down" /\ stack # <<>> /\ Top.listed /\ Top.items # <<>>
    /\ ~IsFolder(drive[Head(Top.items)])
    /\ fs[Child(Top.dir, drive[Head(Top.items)].name)].kind = "file"
    /\ Len(stack') = Len(stack)
    /\ stack'[Len(stack)].items = Tail(Top.items)

PulledItem == drive[Head(Top.items)]
PulledOnto == fs[Child(Top.dir, PulledItem.name)]

\* The step downloads the remote file, or logs that it would.
Downloads ==
    \/ \E i \in 1..Len(NewCalls) : NewCalls[i].op = "download"
    \/ \E i \in 1..Len(NewEvents) : NewEvents[i].ev = "would_download"

\* C16 (as claimed): under local_wins a remote file whose name is an
\* existing local file is not downloaded, whatever the two timestamps are
\* and whether or not the remote one is present.
C16_LocalWinsNeverPulls ==
    [][(PullFileStep /\ policy = "local_wins") => (~Downloads /\ fs' = fs)]_vars

\* The two timestamps are within the tolerance of each other.
WithinTolerance(lm, rm) == lm <= rm + TOLERANCE /\ rm <= lm + TOLERANCE

\* C17 (as claimed), for upload_or_update_file: with both timestamps
\* within the tolerance and different sizes the file is updated; with the
\* local file older than the remote one by more than the tolerance the
\* size tier is not reached, and (the digests being equal) nothing else
\* asks for an update.
C17_SizeTier ==
    [][(/\ engine = "script" /\ PushFileStep
        /\ RemoteA.modifiedTime # 0
        /\ RemoteA.size # 0 /\ RemoteA.size # LocalA.size)
       => /\ WithinTolerance(LocalA.mtime, RemoteA.modifiedTime) => Updates
          /\ (/\ LocalA.mtime + TOLERANCE < RemoteA.modifiedTime
              /\ LocalA.md5 # "none"
              /\ RemoteA.md5Checksum = LocalA.md5) => ~Updates]_vars

\* C18, for upload_or_update_file: with both timestamps within the
\* tolerance and equal sizes, the file is updated exactly when
\* COMPARE_HASHES is set and the local digest cannot be computed or is not
\* the remote one (an absent remote digest is not the local one); when it
\* is not updated, the step sends no request and logs no operation.
C18_HashTierDecides ==
    [][(/\ engine = "script" /\ PushFileStep
        /\ RemoteA.modifiedTime # 0
        /\ WithinTolerance(LocalA.mtime, RemoteA.modifiedTime)
        /\ RemoteA.size = LocalA.size)
       => /\ Updates <=> (/\ compareHashes
                          /\ \/ LocalA.md5 = "none"
                             \/ LocalA.md5 # RemoteA.md5Checksum)
          /\ ~Updates => (calls' = calls /\ events' = events /\ drive' = drive)]_vars

C18_Witness ==
    /\ engine = "script" /\ compareHashes /\ dryRun /\ pc = "done"
    /\ fs[<<"a">>] = FileEntry(2, 1, "h2")
    /\ Len(drive) = 2 /\ drive[2] = Item("a", 1, FILE_MIME, 2, 1, "h1")
    /\ Evs("would_update") # {}

\* C19 (as claimed): under newer_wins, with both timestamps present, an
\* existing local file is downloaded only when the remote file is newer
\* than it by more than the tolerance.
C19_PullTolerance ==
    [][(/\ PullFileStep /\ policy = "newer_wins"
        /\ PulledItem.modifiedTime # 0
        /\ Downloads)
       => PulledItem.modifiedTime > PulledOnto.mtime + TOLERANCE]_vars

\* The items named n in folder fid, and the first of them in the listing.
Namesakes(n, fid) == {j \in ChildIds(drive, fid) : drive[j].name = n}

\* C20 (as claimed): the name-to-item mapping of every directory a push
\* walk is in gives, for a name that several items of the listed folder
\* have, the first of them, the one a lookup by name finds.
C20_FirstMatchResolves ==
    \A i \in 1..Len(stack) :
        (stack[i].mode = "up" /\ stack[i].listed /\ stack[i].rid.kind = "real") =>
            \A n \in Names :
                stack[i].map[n] # 0 =>
                    /\ stack[i].map[n] = Min(Namesakes(n, stack[i].rid))
                    /\ stack[i].map[n] = FindItem(drive, n, stack[i].rid, "")

\* C21 (as claimed): the step of a push walk for an entry whose name is
\* hidden or junk sends no request, logs no operation, changes nothing and
\* does not descend.
C21_HiddenAndJunkSkipped ==
    [][\A n \in Names :
         (PushItemStep(n) /\ (IsHidden(n) \/ IsJunk(n))) =>
            /\ calls' = calls /\ events' = events /\ drive' = drive
            /\ stack' = SetTop([Top EXCEPT !.todo = @ \ {n}])
            /\ pc' = pc]_vars

\* No remote item named n lies in the folder being walked.
NoNamesake(n) == \A i \in ChildIds(drive, Top.rid) : drive[i].name # n

\* The step creates local entry n in the folder being walked: a new-file
\* upload or a create-folder request for it, the dry-run record of one, or
\* an attempt that ends in a failure (of the lookup that precedes the
\* request, or of opening the local file).
CreatesEntry(n) ==
    LET isFile == fs[Child(Top.dir, n)].kind = "file"
        op == IF isFile THEN "upload" ELSE "create_folder"
        ev == IF isFile THEN "would_upload" ELSE "would_create_folder"
    IN \/ \E i \in 1..Len(NewCalls) : NewCalls[i] = Call(op, Top.rid, n)
       \/ \E i \in 1..Len(NewEvents) : NewEvents[i] = Event(ev, Top.rid, n)
       \/ \E f \in failed' \ failed : f.name = n /\ f.dir = Top.rid

\* C22 (as claimed): the step of a push walk for any local entry without a
\* same-named remote item in the folder being walked creates it there.
C22_MissingEntryCreated ==
    [][\A n \in Names :
         (/\ PushItemStep(n)
          /\ fs[Child(Top.dir, n)].kind # "none"
          /\ NoNamesake(n))
         => CreatesEntry(n)]_vars

\* C22 (amended): the step of a push walk for a local entry whose name is
\* neither hidden nor junk and that has no same-named remote item in the
\* folder being walked creates it there.
C22_MissingVisibleEntryCreated ==
    [][\A n \in Names :
         (/\ PushItemStep(n)
          /\ ~(IsHidden(n) \/ IsJunk(n))
          /\ fs[Child(Top.dir, n)].kind # "none"
          /\ NoNamesake(n))
         => CreatesEntry(n)]_vars

\* A real script run that is over has skipped the hidden directory and sent
\* the file next to it.
C22_Witness ==
    /\ engine = "script" /\ ~dryRun /\ pc = "done"
    /\ fs[<<".h">>].kind = "dir"
    /\ \E i \in 1..Len(calls) : calls[i].op = "upload" /\ calls[i].name = "b"
    /\ \A i \in 1..Len(calls) : calls[i].name # ".h"

\* C23 (as claimed): every update request of a push walk carries the id of
\* a remote non-folder item that has the local file's name and lies in the
\* folder being walked; every new-file upload goes into the folder being
\* walked and adds an item, leaving the ids that exist alone.
C23_TransfersTargetFiles ==
    [][(pc = "up" /\ stack # <<>>) =>
        \A i \in 1..Len(NewCalls) :
            LET c == NewCalls[i] IN
            /\ c.op = "update" =>
                  /\ c.id.kind = "real" /\ c.id.n \in 1..Len(drive)
                  /\ ~IsFolder(drive[c.id.n])
                  /\ drive[c.id.n].name = c.name
                  /\ drive[c.id.n].parent = Top.rid.n
            /\ c.op = "upload" =>
                  /\ c.id = Top.rid
                  /\ c.id.kind = "real" /\ c.id.n \in 1..Len(drive)
                  /\ IsFolder(drive[c.id.n])
                  /\ \A k \in 1..Len(drive) : drive'[k] = drive[k]]_vars

\* The step descends into local directory n.
Descends(n) ==
    /\ Len(stack') = Len(stack) + 1
    /\ stack'[Len(stack')].dir = Child(Top.dir, n)

\* The step has a remote folder id for local directory n: the listed folder
\* of that name, the one the step creates, the one create_folder's own
\* lookup finds, or the simulated one of a dry run.
Obtained(n) ==
    \/ Top.map[n] # 0
    \/ Len(drive') > Len(drive)
    \/ \E i \in 1..Len(NewEvents) : NewEvents[i].ev = "would_create_folder"
    \/ /\ engine = "manager" /\ ~dryRun
       /\ failed' = failed
       /\ \E i \in ChildIds(drive, Top.rid) : drive[i].name = n /\ IsFolder(drive[i])

\* C24: the step of a push walk for a local directory without a type clash
\* descends into it exactly when a remote folder id was obtained; without
\* one the subtree is skipped and the walk goes on with the siblings.
C24_RecurseIffFolderId ==
    [][\A n \in Names :
         (/\ PushItemStep(n)
          /\ ~(IsHidden(n) \/ IsJunk(n))
          /\ fs[Child(Top.dir, n)].kind = "dir"
          /\ Top.map[n] # 0 => IsFolder(drive[Top.map[n]]))
         => /\ Descends(n) <=> Obtained(n)
            /\ ~Obtained(n) =>
                  /\ pc' = pc
                  /\ stack' = SetTop([Top EXCEPT !.todo = @ \ {n}])]_vars

\* A run is over in which the request to create folder a failed and entry b
\* was handled after it.
C24_Witness ==
    /\ pc = "done"
    /\ \E f \in failed : f.op = "create_folder" /\ f.name = "a"
    /\ \E i, j \in 1..Len(calls) :
          /\ i < j
          /\ calls[i].op = "create_folder" /\ calls[i].name = "a"
          /\ calls[j].name = "b" /\ calls[j].op \in Mutating
    /\ \A i \in 1..Len(calls) : calls[i].name # "c"

\* C25 (as claimed): whenever a step of a push walk sends a request, the
\* folder it walks exists on the Drive as a folder, and below the root it
\* is the namesake child of the listed parent folder; a listing is only of
\* that folder.
C25_TopDownDepthFirst ==
    [][(pc = "up" /\ stack # <<>> /\ NewCalls # <<>>) =>
        /\ Top.rid.kind = "real"
        /\ Top.rid.n \in 1..Len(drive)
        /\ IsFolder(drive[Top.rid.n])
        /\ Len(stack) > 1 =>
              LET up == stack[Len(stack) - 1] IN
              /\ up.listed
              /\ drive[Top.rid.n].parent = up.rid.n
              /\ Child(up.dir, drive[Top.rid.n].name) = Top.dir
        /\ \A i \in 1..Len(NewCalls) :
              NewCalls[i].op = "list" => NewCalls[i].id = Top.rid]_vars

\* The number of listing requests for folder id in log c.
ListCount(c, id) ==
    Cardinality({i \in 1..Len(c) : c[i].op = "list" /\ c[i].id = id})

\* The number of walks of the run that may have listed a folder by now.
WalksSoFar == IF direction = "two-way" /\ pc = "down" THEN 2 ELSE 1

\* C26: during a walk a step lists no folder but the one it walks and none
\* that the walk has listed before; a step that handles the entries of a
\* directory with a real remote id comes after the one listing of that
\* folder, and a step before the listing sends nothing else.
C26_ListedOncePerDirectory ==
    [][(pc \in {"up", "down"} /\ stack # <<>>) =>
        /\ \A i \in 1..Len(NewCalls) :
              NewCalls[i].op = "list" =>
                 /\ NewCalls[i].id = Top.rid
                 /\ ~Top.listed
                 /\ ListCount(calls', Top.rid) <= WalksSoFar
        /\ (Top.listed /\ Top.rid.kind = "real") =>
              /\ ListCount(calls, Top.rid) \in 1..WalksSoFar
              /\ ListCount(calls', Top.rid) = ListCount(calls, Top.rid)
        /\ ~Top.listed =>
              \A i \in 1..Len(NewCalls) : NewCalls[i].op = "list"]_vars

\* A real push is over that listed the backup folder and folder a below it,
\* each of them once.
C26_Witness ==
    /\ pc = "done" /\ direction = "up" /\ ~dryRun
    /\ ListCount(calls, RealId(1)) = 1
    /\ \E k \in 2..Len(drive) :
          /\ drive[k].name = "a" /\ drive[k].parent = 1
          /\ ListCount(calls, RealId(k)) = 1
    /\ \E i \in 1..Len(calls) : calls[i].op \in {"upload", "update"}

\* C27 (as claimed): in a dry run the id upload_or_update_file returns for a
\* file it would update is a placeholder that carries the reserved prefix
\* and is made from the file's name; and every id a dry-run walk descends
\* with, unless it is the id of an existing folder, is the placeholder that
\* carries the reserved prefix and is made from the directory's name.
C27_PlaceholderIdsFromNames ==
    [][(dryRun /\ pc = "up" /\ stack # <<>>) =>
        /\ (engine = "script" /\ PushFileStep /\ Updates) =>
              LET id == UploadOrUpdateFile(Start(now), <<"a">>, "a", Top.rid,
                                           Top.map["a"], "ok").id
              IN StartsWithDryRun(id) /\ id.name = SafeName("a")
        /\ \A n \in Names :
              (PushItemStep(n) /\ Descends(n) /\ Top.map[n] = 0) =>
                 LET id == stack'[Len(stack')].rid
                 IN StartsWithDryRun(id) /\ id = DryFolderId(n)]_vars

\* Following the parents of item i of store d leads to the root of My Drive
\* within k steps, through existing folders only.
RECURSIVE RootedWithin(_, _, _)
RootedWithin(d, i, k) ==
    \/ i = 0
    \/ /\ k > 0
       /\ i \in 1..Len(d)
       /\ IsFolder(d[i])
       /\ RootedWithin(d, d[i].parent, k - 1)

\* Store d is a tree below the root of My Drive: each item has its one
\* parent, an existing folder or the root, and no chain of parents cycles.
IsTree(d) ==
    \A i \in 1..Len(d) : RootedWithin(d, d[i].parent, Len(d))

UnderFailedListing ==
    \E k \in 1..Len(stack) : Failure("list", stack[k].rid, "") \in failed

\* C29 (as claimed): once the listing of a folder has failed, no step of the
\* push walk in that directory or below it sends a create-folder, upload or
\* update request.
C29_FailedListingSkipsContents ==
    [][(pc = "up" /\ stack # <<>> /\ UnderFailedListing) =>
        \A i \in 1..Len(NewCalls) : NewCalls[i].op \notin Mutating]_vars

\* C30: in a real pull, the local directory of the remote folder being
\* walked exists whenever one of its items is handled, and so whenever a
\* file is downloaded into it or a subfolder is entered; the step that
\* ensures a directory that exists leaves the local tree as it is and goes
\* on to the listing (the run cannot end before that request is sent).
C30_DirectoryBeforeContents ==
    [][(pc = "down" /\ ~dryRun /\ stack # <<>>) =>
        /\ Top.listed => fs[Top.dir].kind = "dir"
        /\ (\E i \in 1..Len(NewCalls) : NewCalls[i].op = "download") =>
              Top.listed /\ fs[Top.dir].kind = "dir"
        /\ Len(stack') > Len(stack) =>
              Top.listed /\ fs'[stack'[Len(stack')].dir].kind = "dir"
        /\ ~Top.listed =>
              /\ fs'[Top.dir].kind = "dir"
              /\ fs[Top.dir].kind = "dir" =>
                    /\ fs' = fs
                    /\ pc' = "aborted" =>
                          \E i \in 1..Len(NewCalls) : NewCalls[i].op = "list"]_vars

\* A real pull is over that made local directory a for the remote folder
\* and downloaded file c into it.
C30_Witness ==
    /\ pc = "done" /\ direction = "down" /\ ~dryRun
    /\ fs[<<"a">>].kind = "dir"
    /\ fs[<<"a", "c">>].kind = "file"
    /\ \E i \in 1..Len(calls) : calls[i].op = "download" /\ calls[i].name = "c"
    /\ \E k \in 2..Len(drive) :
          /\ drive[k].name = "a" /\ drive[k].parent = 1
          /\ ListCount(calls, RealId(k)) = 1

\* The step of a pull walk for the remote item next in the listing.
PullItemStep ==
    /\ pc = "down" /\ stack # <<>> /\ Top.listed /\ Top.items # <<>>
    /\ stack' # stack

\* C31: the step of a pull walk for a remote item whose same-named local
\* entry has the other type sends nothing, logs nothing, leaves the local
\* tree alone and does not descend; the items after it stay to be handled.
C31_ConflictSkipOnPull ==
    [][(/\ PullItemStep
        /\ IF IsFolder(PulledItem) THEN PulledOnto.kind = "file"
           ELSE PulledOnto.kind = "dir")
       => /\ calls' = calls /\ events' = events /\ fs' = fs /\ drive' = drive
          /\ pc' = pc
          /\ stack' = SetTop([Top EXCEPT !.items = Tail(@)])]_vars

\* A real pull is over in which remote folder a met local file a and was
\* left alone, and the remote file b next to it was downloaded.
C31_Witness ==
    /\ pc = "done" /\ direction = "down" /\ ~dryRun
    /\ fs[<<"a">>].kind = "file"
    /\ \E k \in 2..Len(drive) :
          /\ drive[k].name = "a" /\ drive[k].parent = 1 /\ IsFolder(drive[k])
          /\ ListCount(calls, RealId(k)) = 0
    /\ \E i \in 1..Len(calls) : calls[i].op = "download" /\ calls[i].name = "b"

\* The push of this run has created or updated the remote file that the
\* pull is about to handle, and no request of the run has failed.
PushedThisRun ==
    /\ failed = {}
    /\ \E i \in 1..Len(calls) :
          \/ calls[i] = Call("update", RealId(Head(Top.items)), PulledItem.name)
          \/ calls[i] = Call("upload", Top.rid, PulledItem.name)

\* C32 (as claimed): in a real two-way run under newer_wins the pull does
\* not download a file that the push of the same run has created or updated.
C32_PushedFileNotPulledBack ==
    [][(/\ direction = "two-way" /\ ~dryRun /\ policy = "newer_wins"
        /\ PullItemStep
        /\ ~IsFolder(PulledItem)
        /\ PushedThisRun)
       => (~Downloads /\ fs' = fs)]_vars

\* The directory above path p, and the name of p in it.
Parent(p) == SubSeq(p, 1, Len(p) - 1)
Leaf(p) == p[Len(p)]

\* The remote folders that stand for local directory p: the backup folder
\* for the local root, below it the folders named like p in a folder that
\* stands for the directory above.
RECURSIVE Mirrors(_)
Mirrors(p) ==
    IF p = <<>>
    THEN {FindItem(drive, DRIVE_BACKUP_ROOT_FOLDER_NAME, RootAlias, FOLDER_MIME)} \ {0}
    ELSE {k \in 1..Len(drive) :
             /\ drive[k].name = Leaf(p)
             /\ IsFolder(drive[k])
             /\ drive[k].parent \in Mirrors(Parent(p))}

\* The remote items named like p in a folder that stands for the directory
\* above p; folder: the ones that are folders, or the ones that are not.
Namesake(p, folder) ==
    {k \in 1..Len(drive) :
        /\ drive[k].name = Leaf(p)
        /\ IsFolder(drive[k]) = folder
        /\ drive[k].parent \in Mirrors(Parent(p))}

\* Local entry p and every directory above it exist, are neither hidden nor
\* junk and meet no remote item of the other type.
RECURSIVE Pushable(_)
Pushable(p) ==
    \/ p = <<>>
    \/ /\ Pushable(Parent(p))
       /\ fs[p].kind # "none"
       /\ ~(IsHidden(Leaf(p)) \/ IsJunk(Leaf(p)))
       /\ Namesake(p, fs[p].kind = "file") = {}

\* C33: when a real push is over and no request of the run has failed,
\* every local directory that is neither hidden, junk nor in a type clash
\* has a remote folder of its name in the folder of the directory above it,
\* and every such local file a remote file of its name there.
C33_PushIsComplete ==
    (/\ pc = "done" /\ ~dryRun /\ direction \in {"up", "two-way"} /\ failed = {})
    => \A p \in Paths :
          Pushable(p) => (p = <<>> \/ Namesake(p, fs[p].kind = "dir") # {})

\* A real push without failures is over that had a directory with a file
\* in it to send to an empty backup folder.
C33_Witness ==
    /\ pc = "done" /\ ~dryRun /\ direction = "up" /\ failed = {}
    /\ fs[<<"a">>].kind = "dir" /\ fs[<<"a", "c">>].kind = "file"
    /\ \E i, j \in 1..Len(calls) :
          /\ calls[i] = Call("create_folder", RealId(1), "a")
          /\ calls[j].op = "upload" /\ calls[j].name = "c"
    /\ Pushable(<<"a", "c">>)

\* No folder of store d, the root of My Drive included, holds two items of
\* one name.
UniqueNames(d) ==
    \A i, j \in 1..Len(d) :
        (d[i].parent = d[j].parent /\ d[i].name = d[j].name) => i = j

\* C34 (as claimed): no step of a run without a pull makes a remote store
\* with unique names into one that has two items of one name in a folder.
C34_NoDuplicateNames ==
    [][(direction = "up" /\ UniqueNames(drive)) => UniqueNames(drive')]_vars

\* C35 (as claimed): no step of a SyncManager run in direction up changes
\* the local tree, and no step of a run in direction down sends a
\* create-folder, upload or update request or changes the remote store.
C35_DirectionIsolation ==
    [][engine = "manager" =>
        /\ direction = "up" => fs' = fs
        /\ direction = "down" =>
              /\ drive' = drive
              /\ \A i \in 1..Len(NewCalls) : NewCalls[i].op \notin Mutating]_vars

\* C36: in SyncManager the push step for a local file whose name is a
\* remote file with a modified time sends nothing and leaves the remote
\* store alone under remote_wins and skip, and updates the remote file (or
\* logs that it would) under local_wins, whatever the two timestamps are.
C36_FixedPoliciesIgnoreTime ==
    [][(engine = "manager" /\ PushFileStep /\ RemoteA.modifiedTime # 0) =>
        /\ policy \in {"remote_wins", "skip"} =>
              /\ calls' = calls /\ events' = events /\ drive' = drive
        /\ policy = "local_wins" => Updates]_vars

\* A real push under local_wins is over in which a local file with the
\* oldest mtime there is was sent as an update of the remote file.
C36_Witness ==
    /\ engine = "manager" /\ ~dryRun /\ pc = "done" /\ direction = "up"
    /\ policy = "local_wins"
    /\ fs[<<"a">>].kind = "file"
    /\ fs[<<"a">>].mtime = 1
    /\ \E i \in 1..Len(calls) : calls[i].op = "update" /\ calls[i].name = "a"
    /\ \E k \in 2..Len(drive) : drive[k].name = "a" /\ drive[k].size = fs[<<"a">>].size

\* The depth of the deepest path of the trees of the model.
TreeDepth == Max({Len(p) : p \in Paths})

\* C37 (as claimed): the stack of a walk is never deeper than the tree (a
\* frame at depth k walks a directory k - 1 levels below the root), and a
\* run that has begun to walk reaches its final step.
C37_WalkReachesFinished ==
    /\ [](/\ Len(stack) <= TreeDepth + 1
          /\ \A k \in 1..Len(stack) : Len(stack[k].dir) = k - 1)
    /\ (pc \in {"up", "down"}) ~> (pc = "done")

\* C38: the step of a pull walk for a remote Google Workspace document
\* sends no download request and leaves the local tree and the remote store
\* alone, under every conflict policy and whether or not a local file of
\* that name exists; the items after it stay to be handled.
C38_WorkspaceDocsNotPulled ==
    [][(/\ PullItemStep
        /\ PulledItem.mimeType = GDOC_MIME)
       => /\ \A i \in 1..Len(NewCalls) : NewCalls[i].op # "download"
          /\ fs' = fs /\ drive' = drive
          /\ pc' = pc
          /\ stack' = SetTop([Top EXCEPT !.items = Tail(@)])]_vars

\* A real pull under remote_wins is over in which the Google document a,
\* newer than the local file a, was passed over and the file b next to it
\* was downloaded.
C38_Witness ==
    /\ pc = "done" /\ direction = "down" /\ ~dryRun /\ policy = "remote_wins"
    /\ fs[<<"a">>] = LocalOld
    /\ \E k \in 2..Len(drive) :
          /\ drive[k].name = "a" /\ drive[k].parent = 1
          /\ drive[k].mimeType = GDOC_MIME /\ drive[k].modifiedTime = 4
    /\ \A i \in 1..Len(calls) : calls[i].name # "a"
    /\ \E i \in 1..Len(calls) : calls[i].op = "download" /\ calls[i].name = "b"

\* The step of sync_folder for the remote file next in the listing.
WipItemStep ==
    /\ engine = "refactor" /\ pc = "down" /\ stack # <<>> /\ Top.items # <<>>

\* C39: a step of sync_folder changes the final path of the file it handles
\* only when the download has completed, and then to complete content; a
\* step that ends in a failure leaves every final path as it was; and a
\* download is requested only for a file that is absent locally or whose
\* local mtime is strictly older than the remote modified time.
C39_TempThenReplace ==
    [][WipItemStep =>
        LET final == <<PulledItem.name>> IN
        /\ fs'[final] # fs[final] =>
              /\ pc' # "aborted"
              /\ \E i \in 1..Len(NewCalls) : NewCalls[i].op = "download"
              /\ fs'[final].kind = "file" /\ fs'[final].md5 # "none"
              /\ fs'[TempPath(PulledItem.name)].kind = "none"
        /\ pc' = "aborted" => \A n \in {"a", "b"} : fs'[<<n>>] = fs[<<n>>]
        /\ (\E i \in 1..Len(NewCalls) : NewCalls[i].op = "download") =>
              \/ fs[final].kind = "none"
              \/ fs[final].mtime < PulledItem.modifiedTime]_vars

\* A download for a file that exists locally failed: the run is over, the
\* local file is as it was and the cut-off content lies at the temporary
\* path.
C39_Witness ==
    /\ engine = "refactor" /\ pc = "aborted"
    /\ fs[<<"a">>] = LocalOld
    /\ fs[<<"a.tmp">>].kind = "file" /\ fs[<<"a.tmp">>].md5 = "none"
    /\ \E i \in 1..Len(calls) : calls[i].op = "download" /\ calls[i].name = "a"
    /\ \E f \in failed : f.op = "download" /\ f.name = "a"

====
